---- MODULE Spec2Model ----
(***************************************************************************)
(* RobotStreamer: the robot hub (robot_node.py: handle_client, VideoStream)*)
(* and its two client endpoints (operator_node.py, recorder_node.py),      *)
(* joined by one websocket channel per client.                             *)
(*                                                                         *)
(* Channels: "op" is the operator's, "rec" the recorder's, "raw" the       *)
(* channel of an arbitrary peer, which may put any message on the wire,    *)
(* and "mon" the channel of a peer that only listens.                      *)
(* A connection is "idle" before it is made, then "open", then closed by   *)
(* its client, closed by the hub, or "reset" (lost with an error).         *)
(* asyncio runs one handler at a time and switches only at an await, so    *)
(* an action is the code between two awaits at which shared state          *)
(* (websockets_set, pcs, stream.playing, stream.text) can be seen by       *)
(* another handler.                                                        *)
(***************************************************************************)
EXTENDS Integers, Sequences, FiniteSets, TLC

\* ---------------------------------------------------------------- bounds
MaxPeer == 2       \* messages the arbitrary peer sends
MaxCmds == 1       \* commands the operator's user types
MaxDepth == 2      \* nested recv() calls followed
MaxFrames == 2     \* calls of recv followed to their return
MaxIce == 1        \* messages waiting on a channel when a candidate is sent

\* ------------------------------------------------------ program constants
max_retries == 10
InitialRetryDelay == 2
RetryDelayCap == 10

Chan == {"op", "rec", "raw", "mon"}
Clients == {"op", "rec"}
Peers == {"raw", "mon"}

\* ---------------------------------------------------------- wire messages
\* A message on the wire: json is "bad" (not parseable), "nonobj" (parses to
\* something that is no object) or "obj"; the other fields are the object's
\* keys, "none" for a key that is absent.
Wire(j, t, s, k, c, m) ==
  [json |-> j, type |-> t, sdp |-> s, cand |-> k, command |-> c, message |-> m]

Obj(t, s, k, c, m) ==
  [type |-> t, sdp |-> s, cand |-> k, command |-> c, message |-> m]

\* json.dumps of an object
Dumps(d) == Wire("obj", d.type, d.sdp, d.cand, d.command, d.message)

\* json.loads: raises JSONDecodeError, or yields a non-object, or the object
Loads(w) ==
  IF w.json = "bad" THEN [kind |-> "JSONDecodeError"]
  ELSE IF w.json = "nonobj" THEN [kind |-> "nonobj"]
  ELSE [kind |-> "obj",
        data |-> Obj(w.type, w.sdp, w.cand, w.command, w.message)]

BadJson == Wire("bad", "none", "none", "none", "none", "none")
NonObject == Wire("nonobj", "none", "none", "none", "none", "none")
OfferMsg == Dumps(Obj("offer", "sdpO", "none", "none", "none"))
OfferNoSdp == Dumps(Obj("offer", "none", "none", "none", "none"))
CandMsg(k) == Dumps(Obj("candidate", "none", k, "none", "none"))
CandNoFields == Dumps(Obj("candidate", "none", "partial", "none", "none"))
CmdMsg(c, m) == Dumps(Obj("none", "none", "none", c, m))
OfferWithCmd == Dumps(Obj("offer", "sdpO", "none", "pause", "none"))
AnswerWithCmd == Dumps(Obj("answer", "sdpX", "none", "play", "none"))
EmptyObj == Dumps(Obj("none", "none", "none", "none", "none"))

\* What the operator's command_input sends for p, r and t
OperatorCmds == {CmdMsg("pause", "none"), CmdMsg("play", "none"),
                 CmdMsg("text", "hi")}

\* What an arbitrary peer may send
RawMsgs == {BadJson, NonObject, OfferMsg, OfferNoSdp, CandMsg("k1"),
            CandMsg("k2"), CandNoFields, CmdMsg("pause", "none"),
            CmdMsg("play", "none"), CmdMsg("text", "yo"),
            CmdMsg("text", "none"), CmdMsg("zoom", "none"), OfferWithCmd,
            AnswerWithCmd, EmptyObj}

VARIABLES
  websockets_set, pcs,       \* robot_node.py:12-13, as sets of channels
  playing, text,             \* stream.playing, stream.text
  hcPc,                      \* where handle_client(c) stands
  hcMsg, hcPending,          \* the broadcast loop: message, recipients left
  bcSnap, bcTried, bcFailed, \* broadcast: registry at its start, sends tried, failed
  pcAnswered,                \* hub transport: the answer was made and sent
  pcCands,                   \* candidates handed to the hub transport
  early,                     \* candidates read before the answer was sent
  chan,                      \* the connection of each channel
  inbox, toClient,           \* messages in flight: to the hub, to the client
  negLog,                    \* offers and answers put on the clients' channels
  peerSent,                  \* messages an arbitrary sender has put on the wire
  opPc, opSent,              \* operator(): position, commands sent
  recPc,                     \* recorder_node(): position
  attempt, retry_delay,      \* recorder_node.py:135-137
  recDelays,                 \* the delays recorder_node has slept
  cmdLog,                    \* output/commands.jsonl
  recorder_started,          \* recorder_node.py:23
  trackSt,                   \* the recorder's video track: none, live, ended
  stopCalls,                 \* calls of media_recorder.stop() in the session
  synthetic, capSrc,         \* VideoStream.synthetic, what VideoStream.cap reads
  rvPc, rvDepth, rvRet,      \* VideoStream.recv: position, nesting, last result
  frames                     \* calls of recv that have returned

hubVars == <<websockets_set, pcs, playing, text, hcPc, hcMsg, hcPending,
             bcSnap, bcTried, bcFailed, pcAnswered, pcCands, early>>
netVars == <<chan, inbox, toClient, negLog>>
opVars == <<opPc, opSent>>
sinkVars == <<recorder_started, trackSt, stopCalls>>
recVars == <<recPc, attempt, retry_delay, recDelays, cmdLog, sinkVars>>
streamVars == <<synthetic, capSrc, rvPc, rvDepth, rvRet, frames>>
vars == <<hubVars, netVars, peerSent, opVars, recVars, streamVars>>

\* ------------------------------------------------------------------ helpers
Min(a, b) == IF a < b THEN a ELSE b

IsPrefix(s, t) == Len(s) <= Len(t) /\ SubSeq(t, 1, Len(s)) = s

NoMsg == Wire("none", "none", "none", "none", "none", "none")

\* The tag negLog keeps of a message: who put which negotiation object
NegTag(by, w) ==
  IF w.json = "obj" /\ w.type \in {"offer", "answer"}
  THEN <<[by |-> by, type |-> w.type]>> ELSE <<>>

\* ws.send by the client of channel c: the message reaches the hub's side
ClientSend(c, w) ==
  /\ inbox' = [inbox EXCEPT ![c] = Append(@, w)]
  /\ negLog' = IF c \in Clients
               THEN [negLog EXCEPT ![c] = @ \o NegTag("client", w)]
               ELSE negLog

\* ws.send by the hub on channel c, of its own message (from = "hub") or of
\* the command it relays for session from
HubSend(c, from, w) ==
  /\ toClient' = [toClient EXCEPT ![c] = Append(@, [from |-> from, w |-> w])]
  /\ negLog' = IF c \in Clients /\ from = "hub"
               THEN [negLog EXCEPT ![c] = @ \o NegTag("hub", w)]
               ELSE negLog

\* The client of channel c leaves its session: the exit of "async with
\* websockets.connect(...)", or ws.close(), closes the connection if it is
\* still open; what the client had not read is gone with it.
ClientLeaves(c) ==
  /\ chan' = [chan EXCEPT ![c] = IF @ = "open" THEN "closedByClient" ELSE @]
  /\ toClient' = [toClient EXCEPT ![c] = <<>>]
  /\ negLog' = IF c \in Clients THEN [negLog EXCEPT ![c] = <<>>] ELSE negLog

\* -------------------------------------------------- hub: handle_client(ws)
\* A dispatch that looks at the command field before the type (what C21 is
\* checked against)
ClassifyCommandFirst(w) ==
  LET r == Loads(w) IN
  IF r.kind = "JSONDecodeError" THEN "jsonerror"
  ELSE IF r.kind = "nonobj" THEN "attrerror"
  ELSE IF r.data.command # "none" THEN "command"
  ELSE IF r.data.type = "offer" THEN "offer"
  ELSE IF r.data.type = "candidate" THEN "candidate"
  ELSE "ignore"

\* The branch of the if/elif chain a message takes (robot_node.py:105-132)
Classify(w) ==
  LET r == Loads(w) IN
  IF r.kind = "JSONDecodeError" THEN "jsonerror"
  ELSE IF r.kind = "nonobj" THEN "attrerror"
  ELSE IF r.data.type = "offer" THEN "offer"
  ELSE IF r.data.type = "candidate" THEN "candidate"
  ELSE IF r.data.command # "none" THEN "command"
  ELSE "ignore"

\* A broadcast without the test of line 141 (what C2 is checked against)
RecipientsWithSender(reg, c) == reg

\* for other_ws in list(websockets_set): if other_ws is not ws
Recipients(reg, c) == reg \ {c}

\* A hub that replies with an offer (what C3 is checked against)
HubOfferMsg == Dumps(Obj("offer", "sdpA", "none", "none", "none"))

\* What the hub sends in reply to an offer: pc.localDescription after
\* createAnswer and setLocalDescription (lines 111-116)
AnswerMsg == Dumps(Obj("answer", "sdpA", "none", "none", "none"))

\* Lines 74-84: register, create the transport, add the track. When addTrack
\* raises the handler awaits pc.close() before it unregisters.
HcAccept(c) ==
  /\ hcPc[c] = "none"
  /\ websockets_set' = websockets_set \cup {c}
  /\ pcs' = pcs \cup {c}
  /\ \E addTrackOk \in BOOLEAN :
       hcPc' = [hcPc EXCEPT ![c] = IF addTrackOk THEN "loop" ELSE "failclose"]
  /\ UNCHANGED <<playing, text, hcMsg, hcPending, bcSnap, bcTried, bcFailed,
                 pcAnswered, pcCands, early>>

\* The handler is over: the server closes a connection that is still open
\* (with an error close when the handler raised), and what was not read
\* from it is gone.
HandlerEnds(c, raised) ==
  /\ chan' = [chan EXCEPT ![c] = IF @ # "open" THEN @
                                 ELSE IF raised THEN "reset" ELSE "closedByHub"]
  /\ inbox' = [inbox EXCEPT ![c] = <<>>]

\* pc.close() returned: the transport and its state are gone
TransportAfterClose(c, closeOk) ==
  /\ pcAnswered' = [pcAnswered EXCEPT ![c] = @ /\ ~closeOk]
  /\ pcCands' = [pcCands EXCEPT ![c] = IF closeOk THEN <<>> ELSE @]
  /\ early' = [early EXCEPT ![c] = IF closeOk THEN <<>> ELSE @]

\* A discard that empties the set (what C19 is checked against)
DiscardAll(set, c) == {}

\* set.discard(x) of lines 82-83, 156, 158
Discard(set, c) == set \ {c}

\* A teardown that puts the overlay back to its initial state (what C20 is
\* checked against)
OverlayReset == playing' = TRUE /\ text' = ""

\* Lines 155-159 and 79-84: the finally block and the addTrack failure path
\* assign neither stream.playing nor stream.text
OverlayKept == UNCHANGED <<playing, text>>

\* Lines 81-84: await pc.close(); discard both; return. A pc.close() that
\* raises leaves the handler through the exception, the discards not run.
HcFailClose(c) ==
  /\ hcPc[c] = "failclose"
  /\ \E closeOk \in BOOLEAN :
       /\ websockets_set' = IF closeOk THEN Discard(websockets_set, c)
                           ELSE websockets_set
       /\ pcs' = IF closeOk THEN Discard(pcs, c) ELSE pcs
       /\ TransportAfterClose(c, closeOk)
       /\ HandlerEnds(c, ~closeOk)
  /\ hcPc' = [hcPc EXCEPT ![c] = "done"]
  /\ OverlayKept
  /\ UNCHANGED <<hcMsg, hcPending, bcSnap, bcTried, bcFailed>>
  /\ UNCHANGED <<toClient, negLog, peerSent, opVars, recVars, streamVars>>

\* A handler that a bad message takes out of its loop and into the finally
\* block (what C10 is checked against)
HcDiscardFatal(c) ==
  /\ websockets_set' = websockets_set \ {c}
  /\ hcPc' = [hcPc EXCEPT ![c] = "closing"]
  /\ UNCHANGED <<pcs, playing, text, hcMsg, hcPending, bcSnap, bcTried, bcFailed,
                 pcAnswered, pcCands, early>>
  /\ UNCHANGED <<toClient, negLog>>

\* An exception caught inside the message loop (lines 118, 130, 147, 149), or
\* a message no branch takes: it is logged, nothing of the hub changes, and
\* the loop goes on.
HcDiscard(c) ==
  /\ UNCHANGED hubVars
  /\ UNCHANGED <<toClient, negLog>>

\* Lines 107-119. data["sdp"] raises KeyError when the key is absent; any of
\* setRemoteDescription, createAnswer, setLocalDescription, ws.send may
\* raise; all of it is caught at line 118.
HcOffer(c, d) ==
  IF d.sdp = "none" THEN HcDiscard(c)
  ELSE \E out \in {"raises", "sent"} :
    /\ IF out = "sent" /\ chan[c] = "open"
       THEN /\ HubSend(c, "hub", AnswerMsg)
            /\ pcAnswered' = [pcAnswered EXCEPT ![c] = TRUE]
       ELSE UNCHANGED <<toClient, negLog, pcAnswered>>
    /\ UNCHANGED <<websockets_set, pcs, playing, text, hcPc, hcMsg,
                   hcPending, bcSnap, bcTried, bcFailed, pcCands, early>>

\* Lines 120-131. The candidate goes to pc.addIceCandidate at once, whatever
\* the state of the offer/answer exchange; a KeyError for a missing field or
\* an exception of addIceCandidate is caught at line 130 and the candidate
\* is gone.
HcCandidate(c, d) ==
  IF d.cand \in {"none", "partial"} THEN HcDiscard(c)
  ELSE \E taken \in BOOLEAN :
    /\ pcCands' = [pcCands EXCEPT ![c] =
         IF taken THEN Append(@, [k |-> d.cand, answered |-> pcAnswered[c]])
         ELSE @]
    /\ early' = [early EXCEPT ![c] =
         IF pcAnswered[c] THEN @ ELSE Append(@, d.cand)]
    /\ UNCHANGED <<websockets_set, pcs, playing, text, hcPc, hcMsg,
                   hcPending, bcSnap, bcTried, bcFailed, pcAnswered>>
    /\ UNCHANGED <<toClient, negLog>>

\* A flag that every command but pause sets (what C16 is checked against)
NewPlayingUnlessPause(d) == d.command # "pause"

\* Lines 133-139: the overlay state after command d
NewPlaying(d) ==
  IF d.command = "pause" THEN FALSE
  ELSE IF d.command = "play" THEN TRUE
  ELSE playing

NewText(d) ==
  IF d.command = "text"
  THEN (IF d.message = "none" THEN "" ELSE d.message)
  ELSE text

\* Lines 132-140: set the overlay state, then take the snapshot
\* list(websockets_set) the broadcast loop walks.
HcCommand(c, w, d) ==
  LET rcpt == Recipients(websockets_set, c) IN
  /\ playing' = NewPlaying(d)
  /\ text' = NewText(d)
  /\ hcPc' = [hcPc EXCEPT ![c] = IF rcpt = {} THEN "loop" ELSE "bcast"]
  /\ hcPending' = [hcPending EXCEPT ![c] = rcpt]
  /\ hcMsg' = [hcMsg EXCEPT ![c] = IF rcpt = {} THEN NoMsg ELSE w]
  /\ bcSnap' = [bcSnap EXCEPT ![c] = IF rcpt = {} THEN {} ELSE websockets_set]
  /\ bcTried' = [bcTried EXCEPT ![c] = {}]
  /\ bcFailed' = [bcFailed EXCEPT ![c] = {}]
  /\ UNCHANGED <<websockets_set, pcs, pcAnswered, pcCands, early>>
  /\ UNCHANGED <<toClient, negLog>>

\* Lines 103-150: one turn of the message loop
HcProcess(c) ==
  /\ hcPc[c] = "loop"
  /\ inbox[c] # <<>>
  /\ LET w == Head(inbox[c])
         branch == Classify(w)
     IN CASE branch = "offer" -> HcOffer(c, Loads(w).data)
          [] branch = "candidate" -> HcCandidate(c, Loads(w).data)
          [] branch = "command" -> HcCommand(c, w, Loads(w).data)
          [] OTHER -> HcDiscard(c)
  /\ inbox' = [inbox EXCEPT ![c] = Tail(@)]
  /\ UNCHANGED <<chan, peerSent, opVars, recVars, streamVars>>

\* Lines 140-146: one await other_ws.send(message) of the broadcast loop. A
\* send on a connection that is no longer open raises; line 145 catches it.
HcBroadcastSend(c) ==
  /\ hcPc[c] = "bcast"
  /\ \E o \in hcPending[c] :
       LET rest == hcPending[c] \ {o} IN
       /\ IF chan[o] = "open" THEN HubSend(o, c, hcMsg[c])
          ELSE UNCHANGED <<toClient, negLog>>
       /\ hcPending' = [hcPending EXCEPT ![c] = rest]
       /\ bcTried' = [bcTried EXCEPT ![c] = IF rest = {} THEN {} ELSE @ \cup {o}]
       /\ bcFailed' = [bcFailed EXCEPT ![c] =
            IF rest = {} THEN {}
            ELSE IF chan[o] = "open" THEN @ ELSE @ \cup {o}]
       /\ bcSnap' = [bcSnap EXCEPT ![c] = IF rest = {} THEN {} ELSE @]
       /\ hcMsg' = [hcMsg EXCEPT ![c] = IF rest = {} THEN NoMsg ELSE @]
       /\ hcPc' = [hcPc EXCEPT ![c] = IF rest = {} THEN "loop" ELSE "bcast"]
  /\ UNCHANGED <<websockets_set, pcs, playing, text, pcAnswered, pcCands,
                 early>>
  /\ UNCHANGED <<chan, inbox, peerSent, opVars, recVars, streamVars>>

\* Lines 86-100: the transport of session c reports a local candidate and
\* on_icecandidate sends it on the ws of its own handler; a failed send is
\* caught at line 99. The candidate string names the transport it is of.
\* At most MaxIce messages wait on the channel when it is sent.
HubCandMsg(c) == CandMsg(c)

HcIceCandidate(c) ==
  /\ hcPc[c] \in {"loop", "bcast", "closing"}
  /\ c \in pcs
  /\ Len(toClient[c]) < MaxIce
  /\ IF chan[c] = "open" THEN HubSend(c, "hub", HubCandMsg(c))
     ELSE UNCHANGED <<toClient, negLog>>
  /\ UNCHANGED <<hubVars, chan, inbox, peerSent, opVars, recVars, streamVars>>

\* Lines 103, 151-156: the message iterator ends (the peer closed the
\* connection) or raises (ConnectionClosedError at line 151, anything else
\* at line 153), and the finally block begins: websockets_set.discard(ws),
\* then await pc.close().
HcLoopEnd(c) ==
  /\ hcPc[c] = "loop"
  /\ chan[c] \in {"closedByClient", "reset"}
  /\ chan[c] = "closedByClient" => inbox[c] = <<>>
  /\ websockets_set' = Discard(websockets_set, c)
  /\ hcPc' = [hcPc EXCEPT ![c] = "closing"]
  /\ OverlayKept
  /\ UNCHANGED <<pcs, hcMsg, hcPending, bcSnap, bcTried, bcFailed,
                 pcAnswered, pcCands, early>>
  /\ UNCHANGED <<netVars, peerSent, opVars, recVars, streamVars>>

\* Lines 157-159: pc.close() returns and pcs.discard(pc) runs, or pc.close()
\* raises and the handler is left with pc still in pcs.
HcClose(c) ==
  /\ hcPc[c] = "closing"
  /\ \E closeOk \in BOOLEAN :
       /\ pcs' = IF closeOk THEN Discard(pcs, c) ELSE pcs
       /\ TransportAfterClose(c, closeOk)
       /\ HandlerEnds(c, ~closeOk)
  /\ hcPc' = [hcPc EXCEPT ![c] = "done"]
  /\ OverlayKept
  /\ UNCHANGED <<websockets_set, hcMsg, hcPending, bcSnap, bcTried, bcFailed>>
  /\ UNCHANGED <<toClient, negLog, peerSent, opVars, recVars, streamVars>>

\* ------------------------------------------------------------ the network
\* A connection is lost under both ends
ChannelReset(c) ==
  /\ chan[c] = "open"
  /\ chan' = [chan EXCEPT ![c] = "reset"]
  /\ UNCHANGED <<hubVars, inbox, toClient, negLog, peerSent, opVars, recVars,
                 streamVars>>

\* ------------------------------------------------------------ other peers
PeerConnect(c) ==
  /\ chan[c] = "idle"
  /\ HcAccept(c)
  /\ chan' = [chan EXCEPT ![c] = "open"]
  /\ UNCHANGED <<inbox, toClient, negLog, peerSent, opVars, recVars, streamVars>>

\* The arbitrary peer sends any message, once the hub has read its last one
PeerSend ==
  /\ chan["raw"] = "open"
  /\ peerSent < MaxPeer
  /\ inbox["raw"] = <<>>
  /\ \E w \in RawMsgs : ClientSend("raw", w)
  /\ peerSent' = peerSent + 1
  /\ UNCHANGED <<hubVars, chan, toClient, opVars, recVars, streamVars>>

\* A peer reads what the hub sent it
PeerRecv(c) ==
  /\ toClient[c] # <<>>
  /\ toClient' = [toClient EXCEPT ![c] = Tail(@)]
  /\ UNCHANGED <<hubVars, chan, inbox, negLog, peerSent, opVars, recVars,
                 streamVars>>

PeerClose(c) ==
  /\ chan[c] = "open"
  /\ ClientLeaves(c)
  /\ UNCHANGED <<hubVars, inbox, peerSent, opVars, recVars, streamVars>>

\* What may reach a client endpoint from the address it dialled
AnswerNoSdp == Dumps(Obj("answer", "none", "none", "none", "none"))

ServerMsgs == {BadJson, NonObject, AnswerMsg, AnswerNoSdp, CandMsg("k1"),
               CandNoFields, CmdMsg("pause", "none"), EmptyObj}

\* The connection hands client endpoint c a message, whatever the other end
\* wrote: the endpoint reads it with "async for message in ws"
\* (operator_node.py:90, recorder_node.py:80)
WireDeliver(c) ==
  /\ chan[c] = "open"
  /\ peerSent < MaxPeer
  /\ toClient[c] = <<>>
  /\ \E w \in ServerMsgs :
       toClient' = [toClient EXCEPT ![c] = <<[from |-> "wire", w |-> w]>>]
  /\ peerSent' = peerSent + 1
  /\ UNCHANGED <<hubVars, chan, inbox, negLog, opVars, recVars, streamVars>>

\* ------------------------------------------------- operator_node.operator
\* Lines 140-148: websockets.connect raises OSError or InvalidHandshake; the
\* loop sleeps 1 s and tries again, without limit.
OpConnectFail ==
  /\ opPc = "connect"
  /\ UNCHANGED vars

OpConnectOk ==
  /\ opPc = "connect"
  /\ HcAccept("op")
  /\ chan' = [chan EXCEPT !["op"] = "open"]
  /\ opPc' = "setup"
  /\ UNCHANGED <<inbox, toClient, negLog, peerSent, opSent, recVars, streamVars>>

\* What a client endpoint sends first (operator_node.py:85-87,
\* recorder_node.py:67-72): pc.localDescription after createOffer and
\* setLocalDescription
ClientOfferMsg == Dumps(Obj("offer", "sdpO", "none", "none", "none"))

\* Lines 53-87 of run_once: build the transport, create and send the offer.
\* Nothing in run_once catches an exception here: it leaves the "async with"
\* and reaches line 146, which takes an OSError back to websockets.connect
\* after 1 s; anything else, the ConnectionClosed of a send on a lost
\* connection included, leaves operator().
OpSetup ==
  /\ opPc = "setup"
  /\ \E out \in {"sent", "OSError", "other"} :
       IF out = "sent" /\ chan["op"] = "open"
       THEN /\ ClientSend("op", ClientOfferMsg)
            /\ opPc' = "running"
            /\ UNCHANGED <<chan, toClient>>
       ELSE /\ opPc' = IF out = "OSError" THEN "connect" ELSE "crashed"
            /\ ClientLeaves("op")
            /\ UNCHANGED inbox
  /\ UNCHANGED <<hubVars, peerSent, opSent, recVars, streamVars>>

\* Lines 89-104, signaling_loop: what one message does to the operator.
\* No statement of the loop is inside a try.
OpOutcomes(w) ==
  LET r == Loads(w) IN
  IF r.kind # "obj" THEN {"raise"}
  ELSE IF r.data.type = "answer"
       THEN (IF r.data.sdp = "none" THEN {"raise"} ELSE {"next", "raise"})
  ELSE IF r.data.type = "candidate"
       THEN (IF r.data.cand \in {"none", "partial"} THEN {"raise"}
             ELSE {"next", "raise"})
  ELSE {"next"}

OpRecv ==
  /\ opPc = "running"
  /\ toClient["op"] # <<>>
  /\ \E out \in OpOutcomes(Head(toClient["op"]).w) :
       IF out = "next"
       THEN /\ toClient' = [toClient EXCEPT !["op"] = Tail(@)]
            /\ UNCHANGED <<opPc, chan, negLog>>
       ELSE /\ opPc' = "crashed"
            /\ ClientLeaves("op")
  /\ UNCHANGED <<hubVars, inbox, peerSent, opSent, recVars, streamVars>>

\* Line 90: the iterator raises ConnectionClosedError, which nothing up to
\* asyncio.run catches; or it ends because the hub closed the connection,
\* and gather keeps waiting for command_input.
OpSigEnd ==
  /\ opPc = "running"
  /\ chan["op"] \in {"closedByHub", "reset"}
  /\ chan["op"] = "closedByHub" => toClient["op"] = <<>>
  /\ opPc' = IF chan["op"] = "reset" THEN "crashed" ELSE "sigEnded"
  /\ toClient' = [toClient EXCEPT !["op"] = <<>>]
  /\ negLog' = [negLog EXCEPT !["op"] = <<>>]
  /\ UNCHANGED <<hubVars, chan, inbox, peerSent, opSent, recVars, streamVars>>

\* Lines 113-123, command_input: p, r or t typed. ws.send on a connection
\* that is gone raises ConnectionClosed out of gather.
OpCommand ==
  /\ opPc \in {"running", "sigEnded"}
  /\ opSent < MaxCmds
  /\ inbox["op"] = <<>>
  /\ IF chan["op"] = "open"
     THEN /\ \E w \in OperatorCmds : ClientSend("op", w)
          /\ opSent' = opSent + 1
          /\ UNCHANGED <<opPc, chan, toClient>>
     ELSE /\ opPc' = "crashed"
          /\ ClientLeaves("op")
          /\ UNCHANGED <<inbox, opSent>>
  /\ UNCHANGED <<hubVars, peerSent, recVars, streamVars>>

\* Lines 124-132: x typed: ws.close(), pc.close(), every other task
\* cancelled; run_once returns and the retry loop breaks.
OpExit ==
  /\ opPc \in {"running", "sigEnded"}
  /\ opPc' = "exited"
  /\ ClientLeaves("op")
  /\ UNCHANGED <<hubVars, inbox, peerSent, opSent, recVars, streamVars>>

\* ------------------------------------------- recorder_node.recorder_node
\* A doubling without the cap (what C7 is checked against)
NextDelayUncapped(d) == d * 2

\* Line 151: retry_delay = min(retry_delay * 2, 10)
NextDelay(d) == Min(d * 2, RetryDelayCap)

\* Lines 137-151: attempt number attempt+1 raises OSError, InvalidHandshake
\* or ConnectionClosedError: sleep retry_delay, double it up to the cap.
\* After the last attempt the for loop ends and its else reports the failure.
RecConnectFail ==
  /\ recPc = "connect"
  /\ attempt < max_retries
  /\ recDelays' = Append(recDelays, retry_delay)
  /\ retry_delay' = NextDelay(retry_delay)
  /\ attempt' = attempt + 1
  /\ recPc' = IF attempt + 1 = max_retries THEN "failed" ELSE "connect"
  /\ UNCHANGED <<hubVars, netVars, peerSent, opVars, cmdLog, sinkVars, streamVars>>

\* Lines 152-154: any other exception of the attempt ends the loop
RecConnectUnexpected ==
  /\ recPc = "connect"
  /\ attempt < max_retries
  /\ attempt' = attempt + 1
  /\ recPc' = "done"
  /\ UNCHANGED <<hubVars, netVars, peerSent, opVars, retry_delay, recDelays,
                 cmdLog, sinkVars, streamVars>>

RecConnectOk ==
  /\ recPc = "connect"
  /\ attempt < max_retries
  /\ HcAccept("rec")
  /\ chan' = [chan EXCEPT !["rec"] = "open"]
  /\ attempt' = attempt + 1
  /\ recPc' = "setup"
  /\ UNCHANGED <<inbox, toClient, negLog, peerSent, opVars, retry_delay,
                 recDelays, cmdLog, sinkVars, streamVars>>

\* Lines 17-26 of run_once, outside every try of run_once: the transport and
\* the MediaRecorder are built. What they raise leaves the "async with": line
\* 148 takes an OSError as it takes a failed connect, line 152 ends the loop
\* on anything else.
RecBuildFails ==
  /\ recPc = "setup"
  /\ \E transient \in BOOLEAN :
       IF transient
       THEN /\ recDelays' = Append(recDelays, retry_delay)
            /\ retry_delay' = NextDelay(retry_delay)
            /\ recPc' = IF attempt = max_retries THEN "failed" ELSE "connect"
       ELSE /\ recPc' = "done"
            /\ UNCHANGED <<retry_delay, recDelays>>
  /\ ClientLeaves("rec")
  /\ UNCHANGED <<hubVars, inbox, peerSent, opVars, attempt, cmdLog, sinkVars, streamVars>>

\* Lines 66-76 of run_once: create and send the offer; on an exception
\* run_once returns, the "async with" closes the connection and line 147
\* breaks out of the retry loop.
RecSetup ==
  /\ recPc = "setup"
  /\ \E ok \in BOOLEAN :
       IF ok /\ chan["rec"] = "open"
       THEN /\ ClientSend("rec", ClientOfferMsg)
            /\ recPc' = "loop"
            /\ UNCHANGED <<chan, toClient>>
       ELSE /\ recPc' = "done"
            /\ ClientLeaves("rec")
            /\ UNCHANGED inbox
  /\ UNCHANGED <<hubVars, peerSent, opVars, attempt, retry_delay, recDelays,
                 cmdLog, sinkVars, streamVars>>

\* The branch of signaling_and_logging a message takes (lines 81-102).
\* json.loads and data.get are outside the inner try blocks: what they raise
\* is caught at line 116, which returns.
RecClassify(w) ==
  LET r == Loads(w) IN
  IF r.kind # "obj" THEN "return"
  ELSE IF r.data.type = "answer" THEN "answer"
  ELSE IF r.data.type = "candidate" THEN "candidate"
  ELSE IF r.data.command # "none" THEN "log"
  ELSE "ignore"

\* A log that takes every command twice (what C9 is checked against)
RecLogTwice(log, d) == Append(Append(log, d), d)

\* Lines 102-112: the line appended to commands.jsonl (its timestamp left
\* out); the file, in the directory line 14 made, is taken to be writable
RecLog(log, d) == Append(log, d)

\* Lines 120-128, the finally block of run_once: media_recorder.stop() is
\* called when recorder_started is set (what it raises is caught)
RunOnceFinally ==
  /\ stopCalls' = IF recorder_started THEN stopCalls + 1 ELSE stopCalls
  /\ UNCHANGED <<recorder_started, trackSt>>

\* Lines 44-56, on_track: the video track of the session arrives. addTrack
\* may raise ValueError, which is caught; media_recorder.start() may raise,
\* which leaves on_track before line 57 attaches the "ended" handler.
RecTrack ==
  /\ recPc = "loop"
  /\ trackSt = "none"
  /\ \E out \in {"started", "ValueError", "startRaises"} :
       /\ recorder_started' = (out = "started")
       /\ trackSt' = IF out = "startRaises" THEN "unwatched" ELSE "live"
  /\ UNCHANGED <<hubVars, netVars, peerSent, opVars, recPc, attempt,
                 retry_delay, recDelays, cmdLog, stopCalls, streamVars>>

\* Lines 57-64: the track ends while the session runs; the handler calls
\* media_recorder.stop() when recorder_started is set, and leaves it set
RecTrackEnded ==
  /\ recPc = "loop"
  /\ trackSt = "live"
  /\ trackSt' = "ended"
  /\ stopCalls' = IF recorder_started THEN stopCalls + 1 ELSE stopCalls
  /\ UNCHANGED <<hubVars, netVars, peerSent, opVars, recPc, attempt,
                 retry_delay, recDelays, cmdLog, recorder_started, streamVars>>

\* Lines 80-118: one turn of the recorder's message loop
RecRecv ==
  /\ recPc = "loop"
  /\ toClient["rec"] # <<>>
  /\ LET w == Head(toClient["rec"]).w
         branch == RecClassify(w)
     IN /\ cmdLog' = IF branch = "log" THEN RecLog(cmdLog, Loads(w).data)
                     ELSE cmdLog
        /\ IF branch = "return"
           THEN recPc' = "done" /\ ClientLeaves("rec") /\ RunOnceFinally
           ELSE /\ toClient' = [toClient EXCEPT !["rec"] = Tail(@)]
                /\ UNCHANGED <<recPc, chan, negLog, sinkVars>>
  /\ UNCHANGED <<hubVars, inbox, peerSent, opVars, attempt, retry_delay,
                 recDelays, streamVars>>

\* Lines 80, 113-133, 147: the iterator ends or raises ConnectionClosedError;
\* signaling_and_logging returns, run_once returns, the retry loop breaks.
RecLoopEnd ==
  /\ recPc = "loop"
  /\ chan["rec"] \in {"closedByHub", "reset"}
  /\ chan["rec"] = "closedByHub" => toClient["rec"] = <<>>
  /\ recPc' = "done"
  /\ toClient' = [toClient EXCEPT !["rec"] = <<>>]
  /\ negLog' = [negLog EXCEPT !["rec"] = <<>>]
  /\ RunOnceFinally
  /\ UNCHANGED <<hubVars, chan, inbox, peerSent, opVars, attempt, retry_delay,
                 recDelays, cmdLog, streamVars>>

\* ------------------------------------------------- robot_node.VideoStream
\* Lines 16-34: the capture sources are tried in turn
VideoStreamInit(primaryOpens, secondaryOpens) ==
  /\ synthetic = (~primaryOpens /\ ~secondaryOpens)
  /\ capSrc = IF primaryOpens THEN "/dev/video0"
              ELSE IF secondaryOpens THEN "sample.mp4" ELSE "released"
  /\ text = ""
  /\ playing = TRUE
  /\ rvPc = "idle"
  /\ rvDepth = 0
  /\ rvRet = "pending"
  /\ frames = 0

\* A recv without lines 43-44 (what C5 is checked against)
RecvNeverBlocked == FALSE

\* Lines 43-44: while not self.playing: await asyncio.sleep(0.05)
RecvBlocked == ~playing

\* Lines 36-41: recv is called; the frame-rate sleep is over
RecvCall ==
  /\ rvPc = "idle"
  /\ frames < MaxFrames
  /\ rvPc' = "gate"
  /\ rvDepth' = 0
  /\ rvRet' = "pending"
  /\ UNCHANGED <<hubVars, netVars, peerSent, opVars, recVars, synthetic, capSrc,
                 frames>>

\* Line 44: one sleep of the wait for playing
RecvPoll ==
  /\ rvPc = "gate"
  /\ RecvBlocked
  /\ UNCHANGED vars

\* What lines 46-57 can come to: with synthetic set the pattern is drawn, or
\* drawing raises; otherwise a frame is read, at once or after the rewind, or
\* both reads fail, or something raises.
ReadOutcomes ==
  IF synthetic THEN {"drawn", "raised"}
  ELSE {"frame", "rewoundFrame", "failed", "raised"}

\* Lines 45-68. A read that fails twice, or an exception, calls recv again
\* and returns what that call returns. With a frame read, lines 58-64 wrap
\* and return it. With synthetic set the frame is drawn and the function
\* runs off its end: lines 58-64 belong to the else branch.
RecvProduce ==
  /\ rvPc = "gate"
  /\ ~RecvBlocked
  /\ \E read \in ReadOutcomes :
       IF read \in {"failed", "raised"}
       THEN /\ rvDepth < MaxDepth
            /\ rvDepth' = rvDepth + 1
            /\ UNCHANGED <<rvPc, rvRet, frames>>
       ELSE /\ rvPc' = "idle"
            /\ rvRet' = IF read = "drawn" THEN "None" ELSE "frame"
            /\ frames' = frames + 1
            /\ UNCHANGED rvDepth
  /\ UNCHANGED <<hubVars, netVars, peerSent, opVars, recVars, synthetic, capSrc>>

\* ------------------------------------------------------- specifications
HubInit ==
  /\ websockets_set = {}
  /\ pcs = {}
  /\ hcPc = [c \in Chan |-> "none"]
  /\ hcMsg = [c \in Chan |-> NoMsg]
  /\ hcPending = [c \in Chan |-> {}]
  /\ bcSnap = [c \in Chan |-> {}]
  /\ bcTried = [c \in Chan |-> {}]
  /\ bcFailed = [c \in Chan |-> {}]
  /\ pcAnswered = [c \in Chan |-> FALSE]
  /\ pcCands = [c \in Chan |-> <<>>]
  /\ early = [c \in Chan |-> <<>>]

ClientsInit ==
  /\ chan = [c \in Chan |-> "idle"]
  /\ inbox = [c \in Chan |-> <<>>]
  /\ toClient = [c \in Chan |-> <<>>]
  /\ negLog = [c \in Clients |-> <<>>]
  /\ peerSent = 0
  /\ opPc = "connect"
  /\ opSent = 0
  /\ recPc = "connect"
  /\ attempt = 0
  /\ retry_delay = InitialRetryDelay
  /\ recDelays = <<>>
  /\ cmdLog = <<>>
  /\ recorder_started = FALSE
  /\ trackSt = "none"
  /\ stopCalls = 0

Init == HubInit /\ ClientsInit /\ VideoStreamInit(TRUE, TRUE)

HubStep(c) ==
  \/ HcFailClose(c)
  \/ HcProcess(c)
  \/ HcBroadcastSend(c)
  \/ HcLoopEnd(c)
  \/ HcClose(c)

OperatorSession ==
  \/ OpConnectFail \/ OpConnectOk \/ OpSetup \/ OpRecv \/ OpSigEnd
  \/ OpCommand \/ OpExit

RecorderSession ==
  RecConnectOk \/ RecBuildFails \/ RecSetup \/ RecRecv \/ RecLoopEnd

\* The hub with its camera open, the operator and the recorder
Next ==
  \/ \E c \in Clients : ChannelReset(c)
  \/ \E c \in Clients : HubStep(c)
  \/ OperatorSession
  \/ RecorderSession

Spec == Init /\ [][Next]_vars

\* The hub, the operator and two peers that listen
TrioChan == {"op", "raw", "mon"}

TrioNext ==
  \/ \E c \in Peers : PeerConnect(c) \/ PeerRecv(c) \/ PeerClose(c)
  \/ \E c \in TrioChan : ChannelReset(c)
  \/ \E c \in TrioChan : HubStep(c)
  \/ OperatorSession

TrioSpec == Init /\ [][TrioNext]_vars

\* The hub, the recorder and a peer that sends anything
PeerChan == {"raw", "rec"}

PeerNext ==
  \/ PeerConnect("raw") \/ PeerSend \/ PeerRecv("raw") \/ PeerClose("raw")
  \/ \E c \in PeerChan : ChannelReset(c)
  \/ \E c \in PeerChan : HubStep(c)
  \/ RecorderSession

PeerSpec == Init /\ [][PeerNext]_vars

\* The hub, a peer that sends anything and a peer that listens, with the
\* transports reporting their candidates
RelayNext ==
  \/ PeerSend
  \/ \E c \in Peers : PeerConnect(c) \/ PeerRecv(c) \/ PeerClose(c)
  \/ \E c \in Peers : ChannelReset(c)
  \/ \E c \in Peers : HubStep(c)
  \/ \E c \in Peers : HcIceCandidate(c)

RelaySpec == Init /\ [][RelayNext]_vars

\* The recorder alone with a hub that may be unreachable
RetryNext ==
  \/ RecConnectFail \/ RecConnectUnexpected
  \/ RecorderSession
  \/ ChannelReset("rec")
  \/ HcFailClose("rec") \/ HcProcess("rec") \/ HcLoopEnd("rec") \/ HcClose("rec")

RetrySpec == Init /\ [][RetryNext]_vars

\* The recorder with its video track, and the hub's handler for it
SinkNext ==
  \/ RecorderSession
  \/ RecTrack \/ RecTrackEnded
  \/ ChannelReset("rec")
  \/ HcFailClose("rec") \/ HcProcess("rec") \/ HcLoopEnd("rec") \/ HcClose("rec")
  \/ WireDeliver("rec")

SinkSpec == Init /\ [][SinkNext]_vars

\* The client endpoints, reading whatever their connection hands them; the
\* operator's user types nothing but x
EndpointNext ==
  \/ OpConnectFail \/ OpConnectOk \/ OpSetup \/ OpRecv \/ OpSigEnd \/ OpExit
  \/ RecorderSession
  \/ \E c \in Clients : WireDeliver(c)
  \/ \E c \in Clients : ChannelReset(c)

EndpointSpec == Init /\ [][EndpointNext]_vars

\* The video stream of a hub with any capture sources, and one peer whose
\* commands the hub reads. The event loop runs every task that can run:
\* the message loop, and recv, which the media sender of a session calls
\* again and again.
StreamInit ==
  /\ HubInit
  /\ ClientsInit
  /\ \E primaryOpens, secondaryOpens \in BOOLEAN :
       VideoStreamInit(primaryOpens, secondaryOpens)

StreamNext ==
  \/ RecvCall \/ RecvPoll \/ RecvProduce
  \/ PeerConnect("raw") \/ PeerSend
  \/ HcFailClose("raw") \/ HcProcess("raw")

StreamSpec ==
  /\ StreamInit
  /\ [][StreamNext]_vars
  /\ WF_vars(RecvCall)
  /\ WF_vars(RecvProduce)
  /\ WF_vars(HcProcess("raw"))

\* ------------------------------------------------------------------ claims
\* C1, as stated: once handle_client has returned, whichever path ended it,
\* the session's channel is not in websockets_set and its transport is not
\* in pcs.
C1_RemovedOnReturn ==
  \A c \in Chan : hcPc[c] = "done" => c \notin websockets_set /\ c \notin pcs

\* C2: a command read from session c is sent to every session registered at
\* that moment other than c, and never to c. Each send of the broadcast loop
\* takes one recipient off the list, delivers the very message when the
\* recipient's connection is open and delivers nothing when it is not; it
\* leaves every connection and the registry as they are, and the sender
\* goes back to its message loop exactly when no recipient is left.
C2_BroadcastToOthers ==
  [][\A c \in Chan :
       /\ (hcPc[c] = "loop" /\ hcPc'[c] = "bcast")
            => /\ hcPending'[c] = websockets_set \ {c}
               /\ hcMsg'[c] = Head(inbox[c])
       /\ (hcPc[c] = "bcast" /\ hcPending'[c] # hcPending[c])
            => \E o \in hcPending[c] :
                 /\ o # c
                 /\ hcPending'[c] = hcPending[c] \ {o}
                 /\ toClient'[o] =
                      IF chan[o] = "open"
                      THEN Append(toClient[o], [from |-> c, w |-> hcMsg[c]])
                      ELSE toClient[o]
                 /\ \A p \in Chan \ {o} : toClient'[p] = toClient[p]
                 /\ chan' = chan
                 /\ websockets_set' = websockets_set
                 /\ hcPc'[c] = IF hcPending'[c] = {} THEN "loop" ELSE "bcast"
       /\ (hcPc[c] = "bcast" /\ hcPending'[c] = hcPending[c])
            => hcPc'[c] = "bcast"
       /\ hcPc'[c] = "bcast"
            => /\ hcPending'[c] \cup bcTried'[c] = bcSnap'[c] \ {c}
               /\ bcFailed'[c] \subseteq bcTried'[c]
       /\ \A i \in 1..Len(toClient'[c]) : toClient'[c][i].from # c
    ]_vars

\* C2's case: the operator's command is being broadcast, the send to one
\* recipient has failed and a recipient with an open connection is still
\* to come.
C2_FailedSendMidBroadcast ==
  /\ hcPc["op"] = "bcast"
  /\ chan["op"] = "open"
  /\ bcFailed["op"] # {}
  /\ \E o \in hcPending["op"] : chan[o] = "open"

\* C3, amended: on a client endpoint's channel the first negotiation object
\* is the offer the client sends; the client sends only offers; the hub
\* sends only answers, and only after an offer of the client.
C3_ClientOffersHubAnswers ==
  \A c \in Clients : \A i \in 1..Len(negLog[c]) :
    LET e == negLog[c][i] IN
    /\ i = 1 => e = [by |-> "client", type |-> "offer"]
    /\ e.by = "client" => e.type = "offer"
    /\ e.by = "hub" =>
         /\ e.type = "answer"
         /\ \E j \in 1..(i - 1) : negLog[c][j] = [by |-> "client", type |-> "offer"]

\* C3's case: both client endpoints have sent their offer and have been
\* sent the hub's answer.
C3_BothNegotiated ==
  \A c \in Clients :
    negLog[c] = <<[by |-> "client", type |-> "offer"],
                  [by |-> "hub", type |-> "answer"]>>

\* C3, as stated: the first negotiation object of a channel is an offer sent
\* by the hub; a client sends only answers, after the hub's offer; the hub
\* sends no answer.
C3_HubOffersClientAnswers ==
  \A c \in Clients : \A i \in 1..Len(negLog[c]) :
    LET e == negLog[c][i] IN
    /\ i = 1 => e = [by |-> "hub", type |-> "offer"]
    /\ e.by = "hub" => e.type = "offer"
    /\ e.by = "client" =>
         /\ e.type = "answer"
         /\ \E j \in 1..(i - 1) : negLog[c][j] = [by |-> "hub", type |-> "offer"]

\* C4, as stated: a candidate read before the channel's offer/answer
\* exchange has completed is not applied then but queued; once the exchange
\* has completed the transport has been given those candidates, all of them
\* and in the order they were read.
C4_EarlyCandidatesQueued ==
  \A c \in Chan :
    /\ \A i \in 1..Len(pcCands[c]) : pcCands[c][i].answered
    /\ pcAnswered[c] =>
         /\ Len(early[c]) <= Len(pcCands[c])
         /\ \A i \in 1..Len(early[c]) : pcCands[c][i].k = early[c][i]

\* C5, amended: the hub's processing of a pause command leaves playing
\* false, and while playing is false a call of recv that has reached line 43
\* stays there: it reads nothing and returns nothing until a play command
\* has set playing again.
C5_PausedRecvWaits ==
  [][/\ (/\ hcPc["raw"] = "loop"
         /\ inbox["raw"] # <<>>
         /\ inbox'["raw"] = Tail(inbox["raw"])
         /\ Classify(Head(inbox["raw"])) = "command"
         /\ Head(inbox["raw"]).command = "pause")
          => ~playing'
     /\ (rvPc = "gate" /\ ~playing)
          => UNCHANGED <<rvPc, rvDepth, rvRet, frames>>
    ]_vars

\* C5's case: recv has been called and waits at line 43 after a pause
C5_PausedAtGate == rvPc = "gate" /\ ~playing /\ peerSent > 0

\* C5, as stated: in every state with playing false a call of recv goes on
\* to return a frame without a later play command; so a call that is at
\* line 43 with playing false can take its next step past it.
C5_RecvGoesOnWhilePaused == (rvPc = "gate" /\ ~playing) => ENABLED RecvProduce

\* C6, as stated: the sources are tried in the order primary, secondary,
\* synthetic, and with the synthetic generator every call of recv that
\* returns, returns a video frame.
C6_SyntheticReturnsFrames ==
  /\ synthetic <=> capSrc = "released"
  /\ (synthetic /\ rvRet # "pending") => rvRet = "frame"

\* C7: the delays the recorder sleeps are the first delays of 2, 4, 8, 10,
\* 10, 10, 10, 10, 10, 10; no more than max_retries attempts are made; the
\* terminal failure is reported after max_retries attempts that were all
\* followed by their delay, and every such run ends in that report.
C7_BackoffDelays ==
  LET expected == <<2, 4, 8, 10, 10, 10, 10, 10, 10, 10>> IN
  /\ attempt <= max_retries
  /\ IsPrefix(recDelays, expected)
  /\ recPc = "failed" => attempt = max_retries /\ recDelays = expected
  /\ Len(recDelays) = max_retries => recPc = "failed"

\* C7's case: no connection was ever made and the failure is reported
C7_EveryAttemptFailed ==
  recPc = "failed" /\ chan["rec"] = "idle" /\ Len(recDelays) = attempt

\* C8, as stated: the loss of an established channel, by a reset or by the
\* hub closing it, does not end the client: the operator in its signaling
\* loop does not leave operator() with the exception, and the recorder in
\* its message loop does not leave its retry loop.
C8_LossNotFatal ==
  [][/\ (opPc = "running" /\ toClient["op"] = <<>> /\ chan["op"] = "reset")
          => opPc' # "crashed"
     /\ (/\ recPc = "loop"
         /\ toClient["rec"] = <<>>
         /\ chan["rec"] \in {"reset", "closedByHub"})
          => recPc' # "done"
    ]_vars

C10_MalformedDiscarded ==
  [][\A c \in Chan :
       (/\ hcPc[c] = "loop"
        /\ inbox[c] # <<>>
        /\ inbox'[c] = Tail(inbox[c])
        /\ LET w == Head(inbox[c]) IN
           \/ w.json \in {"bad", "nonobj"}
           \/ w.type = "offer" /\ w.sdp = "none"
           \/ w.type = "candidate" /\ w.cand \in {"none", "partial"})
         => /\ hcPc'[c] = "loop"
            /\ UNCHANGED <<hubVars, chan, toClient>>
            /\ \A o \in Chan \ {c} : inbox'[o] = inbox[o]
    ]_vars

\* C10's case: an open, registered channel with another session beside it
\* has a malformed message next in its loop
C10_MalformedNext ==
  /\ hcPc["raw"] = "loop"
  /\ chan["raw"] = "open"
  /\ "rec" \in websockets_set
  /\ inbox["raw"] # <<>>
  /\ Head(inbox["raw"]) \in {BadJson, NonObject, OfferNoSdp, CandNoFields}

\* C11, as stated: a client endpoint that reads one malformed message (no
\* JSON, or an answer or candidate with a field missing) discards it: the
\* endpoint stays in its session with its connection as it was, and the
\* message is off the queue so that the next one is read.
C11_ClientDiscardsMalformed ==
  [][/\ (/\ opPc = "running"
         /\ toClient["op"] # <<>>
         /\ Head(toClient["op"]).w \in {BadJson, AnswerNoSdp, CandNoFields}
         /\ opPc' # opPc \/ toClient'["op"] # toClient["op"])
          => /\ opPc' = "running"
             /\ chan'["op"] = chan["op"]
             /\ toClient'["op"] = Tail(toClient["op"])
     /\ (/\ recPc = "loop"
         /\ toClient["rec"] # <<>>
         /\ Head(toClient["rec"]).w \in {BadJson, AnswerNoSdp, CandNoFields}
         /\ recPc' # recPc \/ toClient'["rec"] # toClient["rec"])
          => /\ recPc' = "loop"
             /\ chan'["rec"] = chan["rec"]
             /\ toClient'["rec"] = Tail(toClient["rec"])
    ]_vars

\* C12, as stated: when the hub's message loop takes a command message whose
\* command is none of pause, play, text, no broadcast of it begins, the
\* overlay state is as it was and the sender's connection stays as it was.
C12_UnknownCommandDiscarded ==
  [][\A c \in Chan :
       (/\ hcPc[c] = "loop"
        /\ inbox[c] # <<>>
        /\ inbox'[c] = Tail(inbox[c])
        /\ Classify(Head(inbox[c])) = "command"
        /\ Head(inbox[c]).command \notin {"pause", "play", "text"})
         => /\ hcPc'[c] = "loop"
            /\ hcPending'[c] = {}
            /\ UNCHANGED <<playing, text, toClient, chan>>
    ]_vars

\* C13, as stated: when the hub's message loop takes a well-formed offer and
\* the negotiation fails (no answer is sent), the session is terminated: its
\* handler leaves the message loop and its channel is out of websockets_set,
\* so that no later broadcast goes to it.
C13_FailedNegotiationEndsSession ==
  [][\A c \in Chan :
       (/\ hcPc[c] = "loop"
        /\ inbox[c] # <<>>
        /\ inbox'[c] = Tail(inbox[c])
        /\ Classify(Head(inbox[c])) = "offer"
        /\ Head(inbox[c]).sdp # "none"
        /\ toClient'[c] = toClient[c])
         => /\ hcPc'[c] # "loop"
            /\ c \notin websockets_set'
    ]_vars

\* C15, as stated: the teardown of session c takes c's channel out of
\* websockets_set when the handler enters the finally block and c's
\* transport out of pcs when the handler returns, takes nothing else out,
\* and leaves every other session as it was: its handler where it stood,
\* its connection, its transport, and the messages to and from it.
C15_TeardownRemovesOneSession ==
  [][\A c \in Chan :
       /\ (hcPc[c] = "loop" /\ hcPc'[c] = "closing")
            => websockets_set' = websockets_set \ {c} /\ pcs' = pcs
       /\ (hcPc[c] = "closing" /\ hcPc'[c] = "done")
            => websockets_set' = websockets_set /\ pcs' = pcs \ {c}
       /\ (hcPc'[c] # hcPc[c] /\ hcPc'[c] \in {"closing", "done"})
            => \A o \in Chan \ {c} :
                 /\ hcPc'[o] = hcPc[o]
                 /\ chan'[o] = chan[o]
                 /\ inbox'[o] = inbox[o]
                 /\ toClient'[o] = toClient[o]
                 /\ pcAnswered'[o] = pcAnswered[o]
                 /\ pcCands'[o] = pcCands[o]
                 /\ hcPending'[o] = hcPending[o]
    ]_vars

\* C19: whenever the hub can switch between handlers, every channel in
\* websockets_set has its transport in pcs, so websockets_set is no larger
\* than pcs. (A handler makes its own transport at line 75; the model names
\* a transport by the channel of its handler.)
C19_ChannelsHaveTransports ==
  /\ websockets_set \subseteq pcs
  /\ Cardinality(websockets_set) <= Cardinality(pcs)

\* C19's case: one session is between its two discards, its channel out of
\* websockets_set and its transport still in pcs, beside a registered one
C19_BetweenTheDiscards ==
  \E c \in Chan :
    /\ hcPc[c] = "closing"
    /\ c \in pcs \ websockets_set
    /\ websockets_set # {}

\* C16: playing starts true and text empty; when the hub's message loop
\* takes a command, pause makes playing false, play makes it true and any
\* other command leaves it, text makes text the message (empty when there
\* is none) and any other command leaves it; no other step changes either.
\* So after any sequence of commands playing and text are what the most
\* recent pause/play and the most recent text command made them.
C16_OverlayFollowsLastCommand ==
  /\ playing = TRUE /\ text = ""
  /\ [][LET w == Head(inbox["raw"])
            taken == /\ hcPc["raw"] = "loop"
                     /\ inbox["raw"] # <<>>
                     /\ inbox'["raw"] = Tail(inbox["raw"])
                     /\ w.json = "obj"
                     /\ w.type \notin {"offer", "candidate"}
                     /\ w.command # "none"
        IN IF taken
           THEN /\ playing' = CASE w.command = "pause" -> FALSE
                                [] w.command = "play" -> TRUE
                                [] OTHER -> playing
                /\ text' = CASE w.command = "text" /\ w.message # "none"
                                  -> w.message
                             [] w.command = "text" /\ w.message = "none" -> ""
                             [] OTHER -> text
           ELSE UNCHANGED <<playing, text>>
      ]_vars

\* C16's case: a pause and then a text have been processed
C16_PausedWithText ==
  ~playing /\ text = "yo" /\ inbox["raw"] = <<>> /\ peerSent = 2

\* C17, as stated: in a recorder session media_recorder.stop() is never
\* invoked twice, and a session that started the recorder and has ended has
\* invoked it once.
C17_StopExactlyOnce ==
  /\ stopCalls <= 1
  /\ (recPc = "done" /\ recorder_started) => stopCalls = 1

\* C18, as stated: a failed read is retried by a loop inside one call of
\* recv, which ends at its bound; recv does not call itself without bound,
\* so the nesting of recv calls stays below the depth MaxDepth to which
\* calls are followed, however that depth is chosen.
C18_RetryDepthBounded == rvDepth < MaxDepth

\* C20: a step that ends a hub session (its handler enters or leaves the
\* finally block, or fails on addTrack) and a step that accepts a session
\* leave playing and text as they are; playing changes only when some
\* session's pause or play command is taken and text only when some
\* session's text command is taken. So what a session set stays in effect
\* after it has gone, for the sessions that remain and those accepted later.
C20_TeardownKeepsOverlay ==
  [][LET ends(c) == /\ hcPc'[c] # hcPc[c]
                    /\ hcPc'[c] \in {"closing", "done"}
         accepted(c) == hcPc[c] = "none" /\ hcPc'[c] # "none"
         takes(c, cmds) == /\ hcPc[c] = "loop"
                           /\ inbox[c] # <<>>
                           /\ inbox'[c] = Tail(inbox[c])
                           /\ Classify(Head(inbox[c])) = "command"
                           /\ Loads(Head(inbox[c])).data.command \in cmds
     IN /\ (\E c \in Chan : ends(c) \/ accepted(c))
             => UNCHANGED <<playing, text>>
        /\ playing' # playing => \E c \in Chan : takes(c, {"pause", "play"})
        /\ text' # text => \E c \in Chan : takes(c, {"text"})
    ]_vars

\* C20's case: the session that paused the stream is over, its channel out
\* of both sets, and the recorder's session is registered with the stream
\* still paused
C20_PausedAfterSenderGone ==
  /\ ~playing
  /\ hcPc["raw"] = "done"
  /\ "raw" \notin websockets_set \cup pcs
  /\ hcPc["rec"] = "loop"
  /\ "rec" \in websockets_set

\* C21: what the hub relays to a channel for another session is never a
\* message of type offer or candidate, and a candidate the hub sends on a
\* channel is that of the channel's own transport. A step that takes a
\* message of type offer or candidate from a session, with or without a
\* command field, leaves playing and text as they are, starts no broadcast
\* and puts nothing on any other session's channel; an answer is put on a
\* channel only by the step that takes an offer from that same channel.
C21_NegotiationNotRelayed ==
  /\ [](\A o \in Chan :
          /\ ~(hcMsg[o].json = "obj" /\ hcMsg[o].type \in {"offer", "candidate"})
          /\ \A i \in 1..Len(toClient[o]) :
               LET e == toClient[o][i] IN
               /\ e.from # "hub" =>
                    ~(e.w.json = "obj" /\ e.w.type \in {"offer", "candidate"})
               /\ (e.from = "hub" /\ e.w.type = "candidate") => e.w.cand = o)
  /\ [][LET takes(c, types) ==
              /\ hcPc[c] = "loop"
              /\ inbox[c] # <<>>
              /\ inbox'[c] = Tail(inbox[c])
              /\ Head(inbox[c]).json = "obj"
              /\ Head(inbox[c]).type \in types
            answered(o) ==
              /\ Len(toClient'[o]) = Len(toClient[o]) + 1
              /\ toClient'[o][Len(toClient'[o])].from = "hub"
              /\ toClient'[o][Len(toClient'[o])].w.type = "answer"
        IN /\ \A c \in Chan :
                takes(c, {"offer", "candidate"}) =>
                  /\ UNCHANGED <<playing, text>>
                  /\ hcPc'[c] = "loop"
                  /\ \A o \in Chan \ {c} : toClient'[o] = toClient[o]
           /\ \A o \in Chan : answered(o) => takes(o, {"offer"})
       ]_vars

\* C21's case: the hub has put its transport's candidate and its answer on
\* the sender's own channel and nothing on the channel of the registered
\* listener, the overlay is untouched, and an offer that carries a command
\* field is the next message of the sender's handler
C21_AnsweredOnOwnChannel ==
  /\ toClient["raw"] = <<[from |-> "hub", w |-> HubCandMsg("raw")],
                         [from |-> "hub", w |-> AnswerMsg]>>
  /\ hcPc["mon"] = "loop" /\ chan["mon"] = "open"
  /\ "mon" \in websockets_set
  /\ toClient["mon"] = <<>>
  /\ playing = TRUE /\ text = ""
  /\ hcPc["raw"] = "loop"
  /\ inbox["raw"] = <<OfferWithCmd>>
====
